---- MODULE Spec2Model ----
(***************************************************************************)
(* A model of chopstick, the command line client of a knife recipe server  *)
(* (repository spoutn1k/ladle).  The module covers the maintenance         *)
(* commands and the helpers they rest on: recipe_tiers, dump, clone,       *)
(* clean, ingredient merge and the three *_identify resolvers.  Each       *)
(* command is a state machine of its own (one process runs one command);   *)
(* the remote servers are the environment: every request may succeed or    *)
(* fail.                                                                   *)
(***************************************************************************)
EXTENDS Integers, Sequences, FiniteSets, Bags, TLC

(***************************************************************************)
(* Bounds of the model.                                                    *)
(***************************************************************************)
\* Number of recipe ids the tiering inputs are drawn from.
MaxRecipes == 3

RecipeIds == 1..MaxRecipes

\* The loop of recipe_tiers has no bound of its own; the model stops
\* unrolling it after this many tiers, two more than any terminating run
\* can produce.
MaxTiers == MaxRecipes + 2

\* Number of entity ids the remote of a resolver run can hold.
MaxEntities == 2

\* Numbers of ingredients and labels on the remote that clean works on, and
\* of the recipes their used_in and tagged_recipes collections can name.
MaxIngredients == 2

MaxLabels == 1

MaxUsers == 1

\* Number of recipes on the remote that ingredient_merge, dump and clone
\* work on (its ingredients and labels are counted by MaxIngredients and
\* MaxLabels).
MaxRemoteRecipes == 2

\* Number of requests to the destination that fail during one clone.
MaxFailures == 2

(***************************************************************************)
(* Helpers                                                                 *)
(***************************************************************************)
\* The sequences that list every element of S exactly once: the orders in
\* which a HashSet can be iterated or a server can list a collection.
Orderings(S) ==
    {f \in [1..Cardinality(S) -> S] : \A i, j \in 1..Cardinality(S) : i # j => f[i] # f[j]}

\* The orders of every subset of S.
SubLists(S) == UNION {Orderings(T) : T \in SUBSET S}

Min(S) == CHOOSE x \in S : \A y \in S : x <= y

Max(S) == CHOOSE x \in S : \A y \in S : x >= y

(***************************************************************************)
(* State of recipe_tiers (maintenance_actions.rs 194-239, and the same     *)
(* function in main.rs 501-539).                                           *)
(***************************************************************************)
VARIABLES
    recipe_set,     \* ids of the recipes of the input HashSet<Recipe>
    dependencies,   \* recipe id -> ids named by recipe.dependencies
    tiers,          \* Vec<HashSet<&Recipe>>, as a sequence of sets of ids
    tiered,         \* HashSet<&str> of the ids placed so far
    rest,           \* the recipes not placed yet
    tpc             \* position in recipe_tiers: "entry", "loop", "done"

tierVars == <<recipe_set, dependencies, tiers, tiered, rest, tpc>>

(***************************************************************************)
(* State of a resolver run: recipe_identify (recipe_actions.rs 601-629),   *)
(* ingredient_identify (ingredient_actions.rs 281-324) and label_identify  *)
(* (label_actions.rs 100-138).                                             *)
(***************************************************************************)
VARIABLES
    kind,           \* which resolver runs: "recipe", "ingredient", "label"
    clue,           \* the clue argument
    create,         \* the create argument (recipe_identify has none)
    entities,       \* the remote's entities of that kind: id -> name
    matches,        \* the Vec returned by the *_index request
    result,         \* what the resolver returned
    requests,       \* the requests the resolver issued, in order
    ipc             \* position in the resolver: "get", "index", "create", "done"

idVars == <<kind, clue, create, entities, matches, result, requests, ipc>>

(***************************************************************************)
(* State of clean (maintenance_actions.rs 379-450) and of the remote it    *)
(* works on.                                                               *)
(***************************************************************************)
VARIABLES
    remote_ingredients, \* the remote's ingredients: id -> used_in
    remote_labels,      \* the remote's labels: id -> tagged_recipes
    fetches,            \* what is left of the `fetches` iterator of the pass
    to_delete,          \* the HashSet of the pass, as the set of its ids
    clean_visited,      \* the elements of to_delete the delete loop has passed
    clean_log,          \* the requests clean issued, as a bag
    clean_result,       \* "None", or what clean returned: "Ok", "Err"
    remote_before,      \* the remote's ingredients and labels when clean started
    cpc                 \* position in clean: "start", "ingredients", "labels", "done"

cleanVars == <<remote_ingredients, remote_labels, fetches, to_delete, clean_visited, clean_log, clean_result,
               remote_before, cpc>>

(***************************************************************************)
(* State of ingredient_merge (ingredient_actions.rs 235-279, and the same  *)
(* function in main.rs 425-467) and of the remote it works on.             *)
(***************************************************************************)
VARIABLES
    merge_ingredients,   \* ids of the ingredients on the remote
    remote_requirements, \* <<recipe, ingredient>> -> quantity, on the remote
    requirements_before, \* remote_requirements when the merge started
    target_id,           \* the resolved target ingredient (0: not resolved)
    obsolete_id,         \* the resolved obsolete ingredient (0: not resolved)
    targets,             \* the Vec of (recipe id, quantity), as a set
    additions,           \* the requirement_create futures not completed yet
    deletions,           \* the requirement_delete futures not completed yet
    merge_log,           \* the write requests the merge issued, as a bag
    merge_result,        \* "None", or what ingredient_merge returned
    mpc                  \* position in ingredient_merge

mergeVars == <<merge_ingredients, remote_requirements, requirements_before,
               target_id, obsolete_id, targets, additions, deletions, merge_log,
               merge_result, mpc>>

(***************************************************************************)
(* State of dump (maintenance_actions.rs 490-495): dump_remote, then       *)
(* Datadump::strip.  Its call of recipe_tiers runs on the variables of     *)
(* recipe_tiers above.                                                     *)
(***************************************************************************)
VARIABLES
    source_recipes,      \* the recipes of the remote: id -> record
    source_ingredients,  \* the ingredients of the remote: id -> record
    source_labels,       \* the labels of the remote: id -> record
    origin_recipes,      \* ids of the HashSet<Recipe> that fetch_recipes returned
    origin_ingredients,  \* ids of the HashSet<Ingredient> that fetch_ingredients returned
    origin_labels,       \* ids of the HashSet<Label> that fetch_labels returned
    dump,                \* the Datadump
    dump_result,         \* "None", or what dump returned
    dpc                  \* position in dump

dumpVars == <<source_recipes, source_ingredients, source_labels, origin_recipes,
              origin_ingredients, origin_labels, dump, dump_result, dpc>>

(***************************************************************************)
(* State of clone: maintenance_actions.rs 361-377 (dump_remote, then       *)
(* clone_dump) and main.rs 620-661 (the recipes of a tier are cloned       *)
(* together), and of the destination remote.  Both fetch into              *)
(* origin_recipes and run recipe_tiers on the variables above.             *)
(***************************************************************************)
VARIABLES
    clone_variant,       \* "none", "clone_dump" (maintenance_actions.rs), "tiers" (main.rs)
    ingredient_table,    \* source ingredient id -> destination ingredient id
    recipe_table,        \* source recipe id -> destination recipe id
    queue,               \* the sets of recipes still to clone, in order
    tasks,               \* the recipe_clone calls in flight: recipe id -> position
    destination,         \* the recipes of the destination: id -> record
    clone_log,           \* the requests sent to the destination
    failures,            \* how many of them failed
    clone_result,        \* "None", or how clone ended
    clone_pc             \* position in clone

cloneVars == <<clone_variant, ingredient_table, recipe_table, queue, tasks, destination,
               clone_log, failures, clone_result, clone_pc>>

(***************************************************************************)
(* State of a call of gen_ingredient_table (maintenance_actions.rs         *)
(* 165-190) and of the ingredients of the destination remote.              *)
(***************************************************************************)
VARIABLES
    data_ingredients,        \* `data.ingredients`, the Vec<Ingredient> of the Datadump
    gen_table,               \* `table`, the HashMap built: source id -> destination id
    posts,                   \* the ingredient_create requests sent, in order
    destination_ingredients, \* the ingredients of the destination: name -> id
    position,                \* the index of the next element of data.ingredients.iter()
    gpc                      \* position in gen_ingredient_table: "loop", "done"

tableVars == <<data_ingredients, gen_table, posts, destination_ingredients, position, gpc>>

vars == <<tierVars, idVars, cleanVars, mergeVars, dumpVars, cloneVars, tableVars>>

\* What the actions of one command leave unchanged of the other commands.
notTiers == <<idVars, cleanVars, mergeVars, dumpVars, cloneVars, tableVars>>

notIdentify == <<tierVars, cleanVars, mergeVars, dumpVars, cloneVars, tableVars>>

notClean == <<tierVars, idVars, mergeVars, dumpVars, cloneVars, tableVars>>

notMerge == <<tierVars, idVars, cleanVars, dumpVars, cloneVars, tableVars>>

\* dump calls recipe_tiers, whose variables are not in this list.
notDump == <<idVars, cleanVars, mergeVars, cloneVars, tableVars>>

\* clone calls dump_remote and recipe_tiers, whose variables are not in this
\* list.
notClone == <<idVars, cleanVars, mergeVars, tableVars>>

\* gen_ingredient_table is checked on its own; its call inside clone is part
\* of the actions of clone.
notTable == <<tierVars, idVars, cleanVars, mergeVars, dumpVars, cloneVars>>

\* A command that does not run leaves its variables at these values.
TiersIdle ==
    /\ recipe_set = {}
    /\ dependencies = <<>>
    /\ tiers = <<>>
    /\ tiered = {}
    /\ rest = {}
    /\ tpc = "idle"

CleanIdle ==
    /\ remote_ingredients = <<>>
    /\ remote_labels = <<>>
    /\ fetches = <<>>
    /\ to_delete = {}
    /\ clean_visited = {}
    /\ clean_log = EmptyBag
    /\ clean_result = "None"
    /\ remote_before = <<>>
    /\ cpc = "idle"

MergeIdle ==
    /\ merge_ingredients = {}
    /\ remote_requirements = <<>>
    /\ requirements_before = <<>>
    /\ target_id = 0
    /\ obsolete_id = 0
    /\ targets = {}
    /\ additions = {}
    /\ deletions = {}
    /\ merge_log = EmptyBag
    /\ merge_result = "None"
    /\ mpc = "idle"

DumpIdle ==
    /\ source_recipes = <<>>
    /\ source_ingredients = <<>>
    /\ source_labels = <<>>
    /\ origin_recipes = {}
    /\ origin_ingredients = {}
    /\ origin_labels = {}
    /\ dump = <<>>
    /\ dump_result = "None"
    /\ dpc = "idle"

CloneIdle ==
    /\ clone_variant = "none"
    /\ ingredient_table = <<>>
    /\ recipe_table = <<>>
    /\ queue = <<>>
    /\ tasks = <<>>
    /\ destination = <<>>
    /\ clone_log = {}
    /\ failures = 0
    /\ clone_result = "None"
    /\ clone_pc = "idle"

TableIdle ==
    /\ data_ingredients = <<>>
    /\ gen_table = <<>>
    /\ posts = <<>>
    /\ destination_ingredients = <<>>
    /\ position = 0
    /\ gpc = "idle"

IdentifyIdle ==
    /\ kind = "none"
    /\ clue = ""
    /\ create = FALSE
    /\ entities = <<>>
    /\ matches = <<>>
    /\ result = [tag |-> "None"]
    /\ requests = <<>>
    /\ ipc = "idle"

(***************************************************************************)
(* recipe_tiers                                                            *)
(***************************************************************************)
\* A first tier that is left empty.
BasicRecipesNone(set, deps) == {}

\* partition(|r| r.dependencies.len() == 0): the recipes of the first tier.
BasicRecipes(set, deps) == {r \in set : Cardinality(deps[r]) = 0}

\* A wrong partition predicate: the dependencies are looked up among the ids
\* of the whole input instead of among the ids already placed.
NewTierAmongInput(from, placed) ==
    {r \in from : dependencies[r] \subseteq recipe_set}

\* The partition predicate of the loop: dependencies.is_subset(&tiered).
NewTier(from, placed) == {r \in from : dependencies[r] \subseteq placed}

TiersInit ==
    /\ TableIdle
    /\ IdentifyIdle
    /\ CloneIdle
    /\ DumpIdle
    /\ CleanIdle
    /\ MergeIdle
    /\ recipe_set \in SUBSET RecipeIds
    /\ dependencies \in [recipe_set -> SUBSET RecipeIds]
    /\ tiers = <<>>
    /\ tiered = {}
    /\ rest = {}
    /\ tpc = "entry"

\* Lines 196-205: the first tier holds the recipes without any dependency.
TiersEntry ==
    /\ tpc = "entry"
    /\ LET basic_recipes == BasicRecipes(recipe_set, dependencies)
       IN  /\ tiers' = <<basic_recipes>>
           /\ tiered' = basic_recipes
           /\ rest' = recipe_set \ basic_recipes
    /\ tpc' = "loop"
    /\ UNCHANGED <<recipe_set, dependencies, notTiers>>

\* Lines 207-236: one iteration of `while rest.len() != 0`.
TiersLoop ==
    /\ tpc = "loop"
    /\ rest # {}
    /\ Len(tiers) < MaxTiers
    /\ LET new_tier == NewTier(rest, tiered)
       IN  /\ tiers' = Append(tiers, new_tier)
           /\ tiered' = tiered \cup new_tier
           /\ rest' = rest \ new_tier
    /\ UNCHANGED <<recipe_set, dependencies, tpc, notTiers>>

\* Lines 207 and 238: the loop condition fails and tiers is returned.
TiersReturn ==
    /\ tpc = "loop"
    /\ rest = {}
    /\ tpc' = "done"
    /\ UNCHANGED <<recipe_set, dependencies, tiers, tiered, rest, notTiers>>

TiersNext == TiersEntry \/ TiersLoop \/ TiersReturn

SpecTiers == TiersInit /\ [][TiersNext]_vars

(***************************************************************************)
(* Properties of recipe_tiers                                              *)
(***************************************************************************)
\* The dependencies of r that are recipes of the input set.
InSetDeps(r) == dependencies[r] \cap recipe_set

RECURSIVE DepsWithin(_, _)
\* The recipes reached from the set X in at most n more dependency steps.
DepsWithin(X, n) ==
    IF n = 0 THEN X
    ELSE DepsWithin(X \cup UNION {InSetDeps(x) : x \in X}, n - 1)

\* No recipe of the input depends on itself through in-set dependencies.
InSetAcyclic ==
    \A r \in recipe_set : r \notin DepsWithin(InSetDeps(r), MaxRecipes)

AllDepsInSet == \A r \in recipe_set : dependencies[r] \subseteq recipe_set

\* The index of the tier holding r (0 when r is in no tier).
TierOf(r) ==
    IF \E i \in 1..Len(tiers) : r \in tiers[i]
    THEN CHOOSE i \in 1..Len(tiers) : r \in tiers[i]
    ELSE 0

TiersPartitionInput ==
    /\ UNION {tiers[i] : i \in 1..Len(tiers)} = recipe_set
    /\ \A i, j \in 1..Len(tiers) : i # j => tiers[i] \cap tiers[j] = {}

TiersRespectDeps ==
    \A r \in recipe_set : \A d \in InSetDeps(r) :
        TierOf(d) > 0 /\ TierOf(d) < TierOf(r)

\* C1: for every input whose in-set dependency graph is acyclic, recipe_tiers
\* returns, and what it returns is a partition of the input in which every
\* recipe sits in a later tier than each of its in-set dependencies.  The
\* loop is deterministic in (rest, tiered): an iteration that places nothing
\* leaves both unchanged and so repeats for ever, hence "returns" is stated as
\* "every iteration with recipes left places at least one of them".
C1_TiersPartitionInOrder ==
    InSetAcyclic =>
        /\ (tpc = "loop" /\ rest # {} => NewTier(rest, tiered) # {})
        /\ (tpc = "done" => TiersPartitionInput /\ TiersRespectDeps)

ChainABC ==
    /\ recipe_set = {1, 2, 3}
    /\ dependencies = (1 :> {} @@ 2 :> {1} @@ 3 :> {2})

\* C2: for {A, B, C} with C depending on B and B on A (A = 1, B = 2, C = 3),
\* recipe_tiers returns exactly the three tiers {A}, {B}, {C}, in this order.
C2_ChainTiers ==
    (ChainABC /\ tpc = "done") => tiers = <<{1}, {2}, {3}>>

C2_Witness == ChainABC /\ tpc = "done"

\* C10: recipe_tiers terminates on every finite input: when the in-set
\* dependency graph has a cycle, the number of iterations of the loop never
\* exceeds the number of recipes left after the first tier (the function ends
\* with a cycle error instead of looping).  Stated for the inputs whose
\* dependencies are all in the set, so that only a cycle can block a recipe.
C10_IterationsBounded ==
    (tpc # "entry" /\ AllDepsInSet /\ ~InSetAcyclic) =>
        Len(tiers) - 1 <= Cardinality(recipe_set \ tiers[1])

\* C11: a dependency on a recipe outside the input set does not gate
\* placement: once the first tier is built it holds every recipe without
\* in-set dependencies, and every iteration of the loop places every recipe
\* left whose in-set dependencies are all placed.
C11_OutOfSetDepsDoNotGate ==
    /\ tpc \in {"loop", "done"} =>
          \A r \in recipe_set : InSetDeps(r) = {} => r \in tiers[1]
    /\ (tpc = "loop" /\ rest # {}) =>
          \A r \in rest : InSetDeps(r) \subseteq tiered => r \in NewTier(rest, tiered)

RECURSIVE LongestChain(_)
\* The length of the longest chain of dependencies below recipe r, on an
\* acyclic input whose dependencies are all in the input.
LongestChain(r) ==
    IF dependencies[r] = {} THEN 0
    ELSE 1 + Max({LongestChain(d) : d \in dependencies[r]})

\* C26: on an acyclic input with every dependency in the input, recipe_tiers
\* layers the recipes as Kahn's algorithm does: at every point of the loop
\* tier number k (from 0) holds exactly the recipes whose longest dependency
\* chain has length k, so every recipe is placed in the first iteration in
\* which its dependencies are placed and none is placed later; at the
\* return every recipe is in the tier of its longest chain.
C26_TierIsLongestChain ==
    (InSetAcyclic /\ AllDepsInSet /\ tpc \in {"loop", "done"}) =>
        /\ \A k \in 1..Len(tiers) :
              tiers[k] = {r \in recipe_set : LongestChain(r) = k - 1}
        /\ tiered = {r \in recipe_set : LongestChain(r) < Len(tiers)}
        /\ rest = recipe_set \ tiered
        /\ tpc = "done" => \A r \in recipe_set : TierOf(r) = LongestChain(r) + 1

\* recipe_tiers has returned three tiers for a recipe that depends on
\* recipes of two different tiers: its chains have lengths 1 and 2.
C26_Witness ==
    /\ tpc = "done"
    /\ InSetAcyclic
    /\ AllDepsInSet
    /\ Len(tiers) = 3
    /\ \E r \in recipe_set : \E d, e \in dependencies[r] : TierOf(d) # TierOf(e)

(***************************************************************************)
(* The resolvers: recipe_identify, ingredient_identify, label_identify     *)
(***************************************************************************)
Kinds == {"recipe", "ingredient", "label"}

\* Server-assigned ids and display names; a clue is any string: an id, a
\* name, or a pattern ("a") that is neither.
EntityIds == {ToString(i) : i \in 1..MaxEntities}

EntityNames == {"ab", "abc"}

Clues == EntityIds \cup EntityNames \cup {"a"}

\* The id the remote gives to an entity created during the run.
CreatedId == "new"

\* The {id, name} index record of an entity of the remote.
IndexOf(id) == [id |-> id, name |-> entities[id]]

Ok(index) == [tag |-> "Ok", index |-> index]

\* Box<dyn Error> of a failed request (KnifeError / reqwest error, lib.rs).
RequestError == [tag |-> "Err", error |-> "RequestError"]

\* MatchingError(message, candidates): recipe_actions.rs 625-628 and
\* ingredient_actions.rs 319-322.
MatchingError(c, m) ==
    [tag |-> "Err", error |-> "MatchingError", message |-> c,
     candidates |-> [i \in 1..Len(m) |-> m[i].name]]

\* ChopstickError(message): label_actions.rs 133-136.
ChopstickError(c) == [tag |-> "Err", error |-> "ChopstickError", message |-> c]

\* A search that finds no entry named like the clue.
NoExact(m, c) == 0

\* The position of the first entry of m whose name is the clue, 0 if none:
\* `for indice in matches.iter() { if indice.name == clue { return ... } }`.
FirstExact(m, c) ==
    LET hits == {i \in 1..Len(m) : m[i].name = c}
    IN  IF hits = {} THEN 0 ELSE Min(hits)

\* A resolver that accepts a single match only when its name is the clue.
ResolveExactOnly(k, c, cr, m) ==
    IF FirstExact(m, c) # 0 THEN Ok(m[FirstExact(m, c)])
    ELSE IF cr THEN [tag |-> "Create"]
    ELSE IF k = "label" THEN ChopstickError(c)
    ELSE MatchingError(c, m)

\* What a resolver does with the answer m of the index request: the code
\* after `let matches = ...index(url, clue).await?`.  [tag |-> "Create"]
\* stands for the call of *_create that ends ingredient_identify and
\* label_identify when create is set.
Resolve(k, c, cr, m) ==
    IF Len(m) = 1 THEN Ok(m[1])
    ELSE IF FirstExact(m, c) # 0 THEN Ok(m[FirstExact(m, c)])
    ELSE IF cr THEN [tag |-> "Create"]
    ELSE IF k = "label" THEN ChopstickError(c)
    ELSE MatchingError(c, m)

IdentifyInit ==
    /\ TableIdle
    /\ TiersIdle
    /\ CloneIdle
    /\ DumpIdle
    /\ CleanIdle
    /\ MergeIdle
    /\ kind \in Kinds
    /\ clue \in Clues
    /\ create \in (IF kind = "recipe" THEN {FALSE} ELSE BOOLEAN)
    /\ entities \in UNION {[S -> EntityNames] : S \in SUBSET EntityIds}
    /\ matches = <<>>
    /\ result = [tag |-> "None"]
    /\ requests = <<>>
    /\ ipc = "get"

\* `if let Ok(..) = ladle::*_get(url, clue).await { return Ok(Index {id, name}) }`:
\* the point lookup hits only when the clue is the id of an entity; any error
\* (no such id, or a failed request) falls through to the index request.
IdentifyGet ==
    /\ ipc = "get"
    /\ \/ /\ clue \in DOMAIN entities
          /\ requests' = Append(requests, [op |-> "get", arg |-> clue, ok |-> TRUE])
          /\ result' = Ok(IndexOf(clue))
          /\ ipc' = "done"
       \/ /\ requests' = Append(requests, [op |-> "get", arg |-> clue, ok |-> FALSE])
          /\ result' = result
          /\ ipc' = "index"
    /\ UNCHANGED <<kind, clue, create, entities, matches, notIdentify>>

\* `let matches = ladle::*_index(url, clue).await?` and the decision on it.
\* The remote answers with a list of its entities (which names a pattern
\* matches is the remote's business), or the request fails.
IdentifyIndex ==
    /\ ipc = "index"
    /\ \/ /\ requests' = Append(requests, [op |-> "index", arg |-> clue, ok |-> FALSE])
          /\ result' = RequestError
          /\ ipc' = "done"
          /\ matches' = matches
       \/ \E m \in SubLists({IndexOf(i) : i \in DOMAIN entities}) :
            /\ requests' = Append(requests, [op |-> "index", arg |-> clue, ok |-> TRUE])
            /\ matches' = m
            /\ LET r == Resolve(kind, clue, create, m)
               IN  IF r.tag = "Create"
                   THEN result' = result /\ ipc' = "create"
                   ELSE result' = r /\ ipc' = "done"
    /\ UNCHANGED <<kind, clue, create, entities, notIdentify>>

\* `ladle::ingredient_create(url, clue, false, false, false, false).await` and
\* `ladle::label_create(url, clue).await`: the result of the request is the
\* result of the resolver.
IdentifyCreate ==
    /\ ipc = "create"
    /\ \/ /\ requests' = Append(requests, [op |-> "create", arg |-> clue, ok |-> TRUE])
          /\ entities' = (CreatedId :> clue) @@ entities
          /\ result' = Ok([id |-> CreatedId, name |-> clue])
       \/ /\ requests' = Append(requests, [op |-> "create", arg |-> clue, ok |-> FALSE])
          /\ entities' = entities
          /\ result' = RequestError
    /\ ipc' = "done"
    /\ UNCHANGED <<kind, clue, create, matches, notIdentify>>

IdentifyNext == IdentifyGet \/ IdentifyIndex \/ IdentifyCreate

SpecIdentify == IdentifyInit /\ [][IdentifyNext]_vars

(***************************************************************************)
(* Properties of the resolvers                                             *)
(***************************************************************************)
Issued(op) == \E i \in 1..Len(requests) : requests[i].op = op

Answered(op) == \E i \in 1..Len(requests) : requests[i].op = op /\ requests[i].ok

\* The index request was answered with no match, or with several matches
\* none of which is named like the clue.
NoneOrAmbiguous ==
    /\ Answered("index")
    /\ Len(matches) # 1
    /\ FirstExact(matches, clue) = 0

\* C7: for each kind, a resolver whose point lookup of the clue hits (the clue
\* is the id of an existing entity) returns the {id, name} of that entity and
\* issues no index request; a resolver whose point lookup misses and whose
\* index request is answered with exactly one match returns that match,
\* whether or not its name is the clue.
C7_ResolveByIdOrSingleMatch ==
    ipc = "done" =>
        /\ Answered("get") =>
              /\ result = Ok([id |-> clue, name |-> entities[clue]])
              /\ ~Issued("index")
        /\ (~Answered("get") /\ Answered("index") /\ Len(matches) = 1) =>
              result = Ok(matches[1])

\* A single match whose name differs from the clue was accepted.
C7_Witness ==
    /\ ipc = "done"
    /\ clue \notin DOMAIN entities
    /\ Answered("index")
    /\ Len(matches) = 1
    /\ matches[1].name # clue
    /\ result = Ok(matches[1])

\* The candidate names an error value carries.
CarriedNames(e) == IF e.error = "MatchingError" THEN e.candidates ELSE <<>>

\* C8: for each kind, when the clue is not an id, create is not set and the
\* index request is answered with no match or with several matches none of
\* which is named like the clue, the resolver returns an identification error
\* that carries the names of all the matches, and has issued no write.
C8_AmbiguityErrorListsCandidates ==
    (ipc = "done" /\ clue \notin DOMAIN entities /\ ~create /\ NoneOrAmbiguous) =>
        /\ result.tag = "Err"
        /\ CarriedNames(result) = [i \in 1..Len(matches) |-> matches[i].name]
        /\ ~Issued("create")

\* The create requests the resolver has issued.
Creates == {i \in 1..Len(requests) : requests[i].op = "create"}

\* C23: when the clue is not an id and the index request is answered with
\* several matches, the resolver returns a match named exactly like the clue
\* if there is one, without a write; when no match is named like the clue
\* (or there is no match) and create is set, ingredient_identify and
\* label_identify issue exactly one create request, for the clue, and return
\* the entity the remote created, named after the clue (the error of the
\* request when the remote refused it).
C23_ExactMatchElseCreate ==
    (ipc = "done" /\ clue \notin DOMAIN entities /\ Answered("index")) =>
        /\ (Len(matches) >= 2 /\ \E i \in 1..Len(matches) : matches[i].name = clue) =>
              /\ result.tag = "Ok"
              /\ \E i \in 1..Len(matches) : result.index = matches[i]
              /\ result.index.name = clue
              /\ Creates = {}
        /\ (Len(matches) # 1 /\ create /\ kind \in {"ingredient", "label"}
               /\ \A i \in 1..Len(matches) : matches[i].name # clue) =>
              /\ Cardinality(Creates) = 1
              /\ \A i \in Creates : requests[i].arg = clue
              /\ IF Answered("create")
                 THEN /\ result.tag = "Ok"
                      /\ result.index.name = clue
                      /\ result.index.id \in DOMAIN entities
                      /\ entities[result.index.id] = clue
                      /\ \A i \in 1..Len(matches) : result.index.id # matches[i].id
                 ELSE result = RequestError

\* Several matches, none named like the clue, create set: the entity was
\* created and returned.
C23_Witness ==
    /\ ipc = "done"
    /\ clue \notin DOMAIN entities
    /\ create
    /\ Len(matches) >= 2
    /\ \A i \in 1..Len(matches) : matches[i].name # clue
    /\ Answered("create")
    /\ result.tag = "Ok"
    /\ result.index.name = clue

\* Several matches, one of them named like the clue, which was returned.
C23_WitnessExact ==
    /\ ipc = "done"
    /\ clue \notin DOMAIN entities
    /\ Len(matches) >= 2
    /\ \E i \in 1..Len(matches) : matches[i].name = clue
    /\ result.tag = "Ok"
    /\ result.index.name = clue

(***************************************************************************)
(* clean                                                                   *)
(***************************************************************************)
IngredientIds == 1..MaxIngredients

LabelIds == 1..MaxLabels

\* The recipes a used_in or tagged_recipes collection can name.
UserIds == 1..MaxUsers

\* The remotes clean can start on: any ingredients and labels, each with any
\* collection of recipes referring to it.
Collections(ids) == UNION {[S -> SUBSET UserIds] : S \in SUBSET ids}

\* f without its entry for id: what a successful delete leaves on the remote.
Without(f, id) == [x \in DOMAIN f \ {id} |-> f[x]]

\* An insert that forgets what was collected before.
InsertKeepsLast(set, id) == {id}

\* to_delete.insert(ingredient): records hash and compare by id, so the
\* HashSet holds one element per id.
Insert(set, id) == set \cup {id}

\* An emptiness test the wrong way round.
IsReferenced(refs) == Cardinality(refs) # 0

\* `ingredient.used_in.len() == 0` and `label.tagged_recipes.len() == 0`.
IsOrphan(refs) == Cardinality(refs) = 0

\* A failed fetch that puts the entity among those to delete.
FetchErrorInserted(set, id) == set \cup {id}

\* `Err(message) => log::error!("{:?}", message)`: the entity whose fetch
\* failed is logged and to_delete is left as it is.
FetchError(set, id) == set

CleanLog(op, id, ok, refs) ==
    SetToBag({[op |-> op, id |-> id, ok |-> ok, refs |-> refs]})

CleanInit ==
    /\ TableIdle
    /\ TiersIdle
    /\ CloneIdle
    /\ DumpIdle
    /\ IdentifyIdle
    /\ MergeIdle
    /\ remote_ingredients \in Collections(IngredientIds)
    /\ remote_labels \in Collections(LabelIds)
    /\ remote_before = [ingredients |-> remote_ingredients, labels |-> remote_labels]
    /\ fetches = <<>>
    /\ to_delete = {}
    /\ clean_visited = {}
    /\ clean_log = EmptyBag
    /\ clean_result = "None"
    /\ cpc = "start"

\* Line 380: `ladle::ingredient_index(origin, "").await?`, and the setup of
\* the fetch loop (391-395): one fetch per listed ingredient, in the order of
\* the listing.
CleanIngredientIndex ==
    /\ cpc = "start"
    /\ \/ /\ clean_log' = clean_log (+) CleanLog("ingredient_index", 0, FALSE, {})
          /\ clean_result' = "Err"
          /\ cpc' = "done"
          /\ UNCHANGED <<fetches, to_delete, clean_visited>>
       \/ \E listing \in Orderings(DOMAIN remote_ingredients) :
            /\ clean_log' = clean_log (+) CleanLog("ingredient_index", 0, TRUE, {})
            /\ fetches' = listing
            /\ to_delete' = {}
            /\ clean_visited' = {}
            /\ clean_result' = clean_result
            /\ cpc' = "ingredients"
    /\ UNCHANGED <<remote_ingredients, remote_labels, remote_before, notClean>>

\* Lines 396-406: one iteration of `for fetch in fetches`.
CleanIngredientFetch ==
    /\ cpc = "ingredients"
    /\ fetches # <<>>
    /\ LET id == Head(fetches)
       IN  \/ /\ clean_log' = clean_log (+) CleanLog("ingredient_get", id, FALSE, {})
              /\ to_delete' = FetchError(to_delete, id)
           \/ /\ clean_log' = clean_log (+)
                    CleanLog("ingredient_get", id, TRUE, remote_ingredients[id])
              /\ to_delete' = IF IsOrphan(remote_ingredients[id])
                              THEN Insert(to_delete, id)
                              ELSE to_delete
    /\ fetches' = Tail(fetches)
    /\ UNCHANGED <<remote_ingredients, remote_labels, remote_before, clean_visited,
                   clean_result, cpc, notClean>>

\* Lines 408-411: one iteration of `for ing in to_delete.iter()`, in the
\* order the HashSet yields; a failed delete returns the error (`?`).
CleanIngredientDelete ==
    /\ cpc = "ingredients"
    /\ fetches = <<>>
    /\ \E id \in to_delete \ clean_visited :
         /\ clean_visited' = clean_visited \cup {id}
         /\ \/ /\ clean_log' = clean_log (+) CleanLog("ingredient_delete", id, TRUE, {})
               /\ remote_ingredients' = Without(remote_ingredients, id)
               /\ UNCHANGED <<clean_result, cpc>>
            \/ /\ clean_log' = clean_log (+) CleanLog("ingredient_delete", id, FALSE, {})
               /\ remote_ingredients' = remote_ingredients
               /\ clean_result' = "Err"
               /\ cpc' = "done"
    /\ UNCHANGED <<remote_labels, remote_before, fetches, to_delete, notClean>>

\* Lines 415-429: `ladle::label_index(origin, "").await?` once the ingredient
\* deletes are through, and the setup of the label pass.
CleanLabelIndex ==
    /\ cpc = "ingredients"
    /\ fetches = <<>>
    /\ to_delete \subseteq clean_visited
    /\ \/ /\ clean_log' = clean_log (+) CleanLog("label_index", 0, FALSE, {})
          /\ clean_result' = "Err"
          /\ cpc' = "done"
          /\ UNCHANGED <<fetches, to_delete, clean_visited>>
       \/ \E listing \in Orderings(DOMAIN remote_labels) :
            /\ clean_log' = clean_log (+) CleanLog("label_index", 0, TRUE, {})
            /\ fetches' = listing
            /\ to_delete' = {}
            /\ clean_visited' = {}
            /\ clean_result' = clean_result
            /\ cpc' = "labels"
    /\ UNCHANGED <<remote_ingredients, remote_labels, remote_before, notClean>>

\* Lines 430-440: one iteration of the label fetch loop.
CleanLabelFetch ==
    /\ cpc = "labels"
    /\ fetches # <<>>
    /\ LET id == Head(fetches)
       IN  \/ /\ clean_log' = clean_log (+) CleanLog("label_get", id, FALSE, {})
              /\ to_delete' = FetchError(to_delete, id)
           \/ /\ clean_log' = clean_log (+)
                    CleanLog("label_get", id, TRUE, remote_labels[id])
              /\ to_delete' = IF IsOrphan(remote_labels[id])
                              THEN Insert(to_delete, id)
                              ELSE to_delete
    /\ fetches' = Tail(fetches)
    /\ UNCHANGED <<remote_ingredients, remote_labels, remote_before, clean_visited,
                   clean_result, cpc, notClean>>

\* Lines 444-447: one iteration of `for label in to_delete.iter()`.
CleanLabelDelete ==
    /\ cpc = "labels"
    /\ fetches = <<>>
    /\ \E id \in to_delete \ clean_visited :
         /\ clean_visited' = clean_visited \cup {id}
         /\ \/ /\ clean_log' = clean_log (+) CleanLog("label_delete", id, TRUE, {})
               /\ remote_labels' = Without(remote_labels, id)
               /\ UNCHANGED <<clean_result, cpc>>
            \/ /\ clean_log' = clean_log (+) CleanLog("label_delete", id, FALSE, {})
               /\ remote_labels' = remote_labels
               /\ clean_result' = "Err"
               /\ cpc' = "done"
    /\ UNCHANGED <<remote_ingredients, remote_before, fetches, to_delete, notClean>>

\* Line 449: `Ok(())`.
CleanReturn ==
    /\ cpc = "labels"
    /\ fetches = <<>>
    /\ to_delete \subseteq clean_visited
    /\ clean_result' = "Ok"
    /\ cpc' = "done"
    /\ UNCHANGED <<remote_ingredients, remote_labels, remote_before, fetches,
                   to_delete, clean_visited, clean_log, notClean>>

CleanNext ==
    \/ CleanIngredientIndex
    \/ CleanIngredientFetch
    \/ CleanIngredientDelete
    \/ CleanLabelIndex
    \/ CleanLabelFetch
    \/ CleanLabelDelete
    \/ CleanReturn

SpecClean == CleanInit /\ [][CleanNext]_vars

(***************************************************************************)
(* Properties of clean                                                     *)
(***************************************************************************)
\* The requests clean has issued so far.
CleanRequests == BagToSet(clean_log)

\* The number of requests op issued for entity id.
TimesIssued(op, id) ==
    BagCardinality([e \in {x \in CleanRequests : x.op = op /\ x.id = id} |-> clean_log[e]])

\* The request op for entity id was issued and succeeded.
Succeeded(op, id) == \E e \in CleanRequests : e.op = op /\ e.id = id /\ e.ok

\* The record of the entity was fetched, and its collection was empty.
FetchedEmpty(op, id) ==
    \E e \in CleanRequests : e.op = op /\ e.id = id /\ e.ok /\ e.refs = {}

DeleteOps == {"ingredient_delete", "label_delete"}

ReadOps == {"ingredient_index", "ingredient_get", "label_index", "label_get"}

NoOrphanLeft ==
    /\ \A i \in DOMAIN remote_ingredients : remote_ingredients[i] # {}
    /\ \A l \in DOMAIN remote_labels : remote_labels[l] # {}

\* C5 as claimed: after clean returns (here: returns Ok), no ingredient left
\* on the remote has an empty used_in and no label left has an empty
\* tagged_recipes.
C5_NoOrphanAfterClean == clean_result = "Ok" => NoOrphanLeft

\* C5, amended: after clean returns Ok, no ingredient whose record clean
\* fetched is left on the remote with an empty used_in, and no label whose
\* record clean fetched is left with an empty tagged_recipes.
C5_NoFetchedOrphanAfterClean ==
    clean_result = "Ok" =>
        /\ \A i \in DOMAIN remote_ingredients :
              Succeeded("ingredient_get", i) => remote_ingredients[i] # {}
        /\ \A l \in DOMAIN remote_labels :
              Succeeded("label_get", l) => remote_labels[l] # {}

\* clean returned Ok after deleting two orphaned ingredients and a label.
C5_Witness ==
    /\ clean_result = "Ok"
    /\ Cardinality({i \in IngredientIds : Succeeded("ingredient_delete", i)}) >= 2
    /\ \E l \in LabelIds : Succeeded("label_delete", l)

\* C6: clean leaves referenced entities untouched: every delete it issues is
\* for an ingredient (label) it has fetched with an empty used_in
\* (tagged_recipes), no entity gets more than one delete, every request it
\* issues is a read or such a delete, and the entities with a reference stay
\* on the remote with their collections as they were.
C6_CleanTouchesOnlyOrphans ==
    /\ \A e \in CleanRequests :
          /\ e.op \in ReadOps \cup DeleteOps
          /\ e.op = "ingredient_delete" =>
                /\ FetchedEmpty("ingredient_get", e.id)
                /\ remote_before.ingredients[e.id] = {}
          /\ e.op = "label_delete" =>
                /\ FetchedEmpty("label_get", e.id)
                /\ remote_before.labels[e.id] = {}
    /\ \A i \in IngredientIds : TimesIssued("ingredient_delete", i) <= 1
    /\ \A l \in LabelIds : TimesIssued("label_delete", l) <= 1
    /\ cpc # "idle" =>
          /\ \A i \in DOMAIN remote_before.ingredients :
                remote_before.ingredients[i] # {} =>
                    /\ i \in DOMAIN remote_ingredients
                    /\ remote_ingredients[i] = remote_before.ingredients[i]
          /\ \A l \in DOMAIN remote_before.labels :
                remote_before.labels[l] # {} =>
                    /\ l \in DOMAIN remote_labels
                    /\ remote_labels[l] = remote_before.labels[l]

\* clean ran to its end on a remote holding an orphaned and a referenced
\* ingredient, and deleted the orphaned ingredient and an orphaned label.
C6_Witness ==
    /\ clean_result = "Ok"
    /\ \E i \in DOMAIN remote_ingredients : remote_ingredients[i] # {}
    /\ \E i \in IngredientIds : Succeeded("ingredient_delete", i)
    /\ \E l \in LabelIds : Succeeded("label_delete", l)

\* The request op for entity id was issued and failed.
Failed(op, id) == \E e \in CleanRequests : e.op = op /\ e.id = id /\ ~e.ok

\* An entity whose fetch failed gets one fetch and no delete, and stays on
\* the remote as it was.
FailedFetchExcluded(get, delete, ids, remote, before) ==
    \A id \in ids :
        Failed(get, id) =>
            /\ TimesIssued(get, id) = 1
            /\ TimesIssued(delete, id) = 0
            /\ id \in DOMAIN remote
            /\ remote[id] = before[id]

\* C21: in clean an ingredient or label whose record fetch fails is left out
\* of the run: it is fetched once, it is not deleted, and clean goes on: it
\* returns an error only after a failed index or delete request, and when it
\* returns Ok every orphan whose fetch succeeded has been deleted.
C21_FailedFetchExcludesEntityOnly ==
    /\ FailedFetchExcluded("ingredient_get", "ingredient_delete", IngredientIds,
                           remote_ingredients, remote_before.ingredients)
    /\ FailedFetchExcluded("label_get", "label_delete", LabelIds,
                           remote_labels, remote_before.labels)
    /\ clean_result = "Err" =>
          \E e \in CleanRequests :
              ~e.ok /\ e.op \in DeleteOps \cup {"ingredient_index", "label_index"}
    /\ clean_result = "Ok" =>
          /\ \A i \in IngredientIds :
                FetchedEmpty("ingredient_get", i) => Succeeded("ingredient_delete", i)
          /\ \A l \in LabelIds :
                FetchedEmpty("label_get", l) => Succeeded("label_delete", l)

\* clean returned Ok although the fetch of an orphaned ingredient failed, and
\* it deleted another orphaned ingredient and an
\* orphaned label.
C21_Witness ==
    /\ clean_result = "Ok"
    /\ \E i \in IngredientIds :
          /\ Failed("ingredient_get", i)
          /\ remote_before.ingredients[i] = {}
          /\ \E j \in IngredientIds \ {i} : Succeeded("ingredient_delete", j)
    /\ \E l \in LabelIds : Succeeded("label_delete", l)

\* C22: the label pass of clean does not depend on the outcome of the
\* ingredient pass: when clean has ended and the only requests that failed
\* are ingredient deletes, every orphaned label has been deleted.
C22_LabelPassIndependent ==
    (/\ cpc = "done"
     /\ \A e \in CleanRequests : ~e.ok => e.op = "ingredient_delete") =>
        \A l \in DOMAIN remote_before.labels :
            remote_before.labels[l] = {} => Succeeded("label_delete", l)

(***************************************************************************)
(* ingredient_merge                                                        *)
(***************************************************************************)
RemoteRecipeIds == 1..MaxRemoteRecipes

\* The quantity the remote holds at the start for the requirement of recipe
\* r on ingredient i, when there is one: a different string for every pair,
\* so that a quantity tells where it was read.
QuantityOf(r, i) == ToString(10 * r + i)

\* The optional flag that the remote holds at the start for the requirement
\* or dependency of recipe r on number i: set for some, not for others.
OptionalOf(r, i) == (r + i) % 2 = 0

\* The recipes whose requirements name ingredient i: the used_in that the
\* remote keeps for i.
UsedIn(reqs, i) == {p[1] : p \in {q \in DOMAIN reqs : q[2] = i}}

\* The requirements left after the remote deleted ingredient i.
WithoutIngredient(reqs, i) == [p \in {q \in DOMAIN reqs : q[2] # i} |-> reqs[p]]

\* The requirements left after the remote deleted the one of r on i.
WithoutRequirement(reqs, r, i) == [p \in DOMAIN reqs \ {<<r, i>>} |-> reqs[p]]

\* The remote after an accepted requirement_create: a recipe holds at most
\* one requirement per ingredient, so a create for a pair that is there
\* already (409 CONFLICT, lib.rs 51-52) leaves it as it is.
WithRequirement(reqs, r, i, quantity) ==
    IF <<r, i>> \in DOMAIN reqs THEN reqs ELSE (<<r, i>> :> quantity) @@ reqs

\* Lines 246-254: `.find(|r| r.ingredient.id == obsolete_id)` on the answer
\* of recipe_get_requirements: the pair (recipe id, quantity), if found.
TargetOf(reqs, r, obsolete) ==
    IF <<r, obsolete>> \in DOMAIN reqs THEN {<<r, reqs[<<r, obsolete>>]>>} ELSE {}

MergeLog(op, r, i, quantity, ok) ==
    SetToBag({[op |-> op, recipe |-> r, ingredient |-> i, quantity |-> quantity,
               ok |-> ok]})

\* An error after which the function goes on to its writes.
NoEarlyReturn == "writes"

\* The `?` of lines 240, 241 and 243: the error is returned at once, the
\* function is left.
EarlyReturn == "done"

\* A join that does not wait for its futures.
JoinedAny(futures) == TRUE

\* `join_all(futures).await` has returned: every future of the list has
\* completed.
Joined(futures) == futures = {}

MergeInit ==
    /\ TableIdle
    /\ TiersIdle
    /\ CloneIdle
    /\ DumpIdle
    /\ IdentifyIdle
    /\ CleanIdle
    /\ merge_ingredients = IngredientIds
    /\ \E S \in SUBSET (RemoteRecipeIds \X IngredientIds) :
         remote_requirements = [p \in S |-> QuantityOf(p[1], p[2])]
    /\ requirements_before = remote_requirements
    /\ target_id = 0
    /\ obsolete_id = 0
    /\ targets = {}
    /\ additions = {}
    /\ deletions = {}
    /\ merge_log = EmptyBag
    /\ merge_result = "None"
    /\ mpc = "identify_target"

\* Line 240: `ingredient_identify(origin, target_clue, false).await?.id`.  The
\* resolver (create not set) returns one of the remote's ingredients or an
\* error, and writes nothing.
MergeIdentifyTarget ==
    /\ mpc = "identify_target"
    /\ \/ /\ merge_result' = "Err"
          /\ mpc' = EarlyReturn
          /\ target_id' = target_id
       \/ \E id \in merge_ingredients :
            /\ target_id' = id
            /\ merge_result' = merge_result
            /\ mpc' = "identify_obsolete"
    /\ UNCHANGED <<merge_ingredients, remote_requirements, requirements_before,
                   obsolete_id, targets, additions, deletions, merge_log, notMerge>>

\* Line 241: `ingredient_identify(origin, obsolete_clue, false).await?.id`.
MergeIdentifyObsolete ==
    /\ mpc = "identify_obsolete"
    /\ \/ /\ merge_result' = "Err"
          /\ mpc' = EarlyReturn
          /\ obsolete_id' = obsolete_id
       \/ \E id \in merge_ingredients :
            /\ obsolete_id' = id
            /\ merge_result' = merge_result
            /\ mpc' = "get"
    /\ UNCHANGED <<merge_ingredients, remote_requirements, requirements_before,
                   target_id, targets, additions, deletions, merge_log, notMerge>>

\* Lines 243-272: `ladle::ingredient_get(origin, &obsolete_id).await?`, then
\* for every recipe of used_in a recipe_get_requirements whose failure counts
\* as an empty answer (`unwrap_or(vec![])`), then the two lists of futures
\* over the recipes where the requirement was found.
MergeGet ==
    /\ mpc = "get"
    /\ \/ /\ merge_result' = "Err"
          /\ mpc' = EarlyReturn
          /\ UNCHANGED <<targets, additions, deletions>>
       \/ \E answered \in SUBSET UsedIn(remote_requirements, obsolete_id) :
            LET found == UNION {TargetOf(remote_requirements, r, obsolete_id) :
                                   r \in answered}
            IN  /\ targets' = found
                /\ additions' = found
                /\ deletions' = found
                /\ merge_result' = merge_result
                /\ mpc' = "writes"
    /\ UNCHANGED <<merge_ingredients, remote_requirements, requirements_before,
                   target_id, obsolete_id, merge_log, notMerge>>

\* Lines 266-268 and 274: one of the futures of `join_all(additions).await`
\* completes: requirement_create(origin, recipe_id, &target_id, quantity,
\* false); its result is dropped.
MergeAddition ==
    /\ mpc = "writes"
    /\ \E t \in additions :
         /\ additions' = additions \ {t}
         /\ \/ /\ merge_log' = merge_log (+)
                      MergeLog("requirement_create", t[1], target_id, t[2], TRUE)
               /\ remote_requirements' =
                      WithRequirement(remote_requirements, t[1], target_id, t[2])
            \/ /\ merge_log' = merge_log (+)
                      MergeLog("requirement_create", t[1], target_id, t[2], FALSE)
               /\ remote_requirements' = remote_requirements
    /\ UNCHANGED <<merge_ingredients, requirements_before, target_id, obsolete_id,
                   targets, deletions, merge_result, mpc, notMerge>>

\* Lines 270-272 and 275: one of the futures of `join_all(deletions).await`
\* completes, once the additions have all been joined:
\* requirement_delete(origin, recipe_id, &obsolete_id); its result is dropped.
MergeDeletion ==
    /\ mpc = "writes"
    /\ Joined(additions)
    /\ \E t \in deletions :
         /\ deletions' = deletions \ {t}
         /\ \/ /\ merge_log' = merge_log (+)
                      MergeLog("requirement_delete", t[1], obsolete_id, "", TRUE)
               /\ remote_requirements' =
                      WithoutRequirement(remote_requirements, t[1], obsolete_id)
            \/ /\ merge_log' = merge_log (+)
                      MergeLog("requirement_delete", t[1], obsolete_id, "", FALSE)
               /\ remote_requirements' = remote_requirements
    /\ UNCHANGED <<merge_ingredients, requirements_before, target_id, obsolete_id,
                   targets, additions, merge_result, mpc, notMerge>>

\* Lines 276-278: `ladle::ingredient_delete(origin, &obsolete_id).await?` and
\* `Ok(())`.  A remote that accepts the delete drops the ingredient together
\* with the requirements that still name it.
MergeIngredientDelete ==
    /\ mpc = "writes"
    /\ Joined(additions)
    /\ Joined(deletions)
    /\ \/ /\ merge_log' = merge_log (+) MergeLog("ingredient_delete", 0, obsolete_id, "", TRUE)
          /\ merge_ingredients' = merge_ingredients \ {obsolete_id}
          /\ remote_requirements' = WithoutIngredient(remote_requirements, obsolete_id)
          /\ merge_result' = "Ok"
       \/ /\ merge_log' = merge_log (+) MergeLog("ingredient_delete", 0, obsolete_id, "", FALSE)
          /\ merge_ingredients' = merge_ingredients
          /\ remote_requirements' = remote_requirements
          /\ merge_result' = "Err"
    /\ mpc' = "done"
    /\ UNCHANGED <<requirements_before, target_id, obsolete_id, targets, additions,
                   deletions, notMerge>>

MergeNext ==
    \/ MergeIdentifyTarget
    \/ MergeIdentifyObsolete
    \/ MergeGet
    \/ MergeAddition
    \/ MergeDeletion
    \/ MergeIngredientDelete

SpecMerge == MergeInit /\ [][MergeNext]_vars

(***************************************************************************)
(* Properties of ingredient_merge                                          *)
(***************************************************************************)
\* The recipes that required the obsolete ingredient before the merge.
FormerUsers == UsedIn(requirements_before, obsolete_id)

\* C4: after ingredient_merge of obsolete ingredient X into target Y returns
\* (Ok), no recipe has a requirement on X, every recipe that had one has a
\* requirement on Y with the quantity of its former requirement on X, and X
\* is gone from the remote.  Stated for the merges of two different
\* ingredients in which every read of the requirements was answered and no
\* recipe required both ingredients beforehand.
C4_MergeRedirectsRequirements ==
    (/\ merge_result = "Ok"
     /\ target_id # obsolete_id
     /\ {t[1] : t \in targets} = FormerUsers
     /\ \A r \in FormerUsers : <<r, target_id>> \notin DOMAIN requirements_before)
    =>
        /\ UsedIn(remote_requirements, obsolete_id) = {}
        /\ \A r \in FormerUsers :
              /\ <<r, target_id>> \in DOMAIN remote_requirements
              /\ remote_requirements[<<r, target_id>>] =
                     requirements_before[<<r, obsolete_id>>]
        /\ obsolete_id \notin merge_ingredients

\* The write requests that ingredient_merge has issued.
MergeRequests == BagToSet(merge_log)

\* C12: the delete of a recipe's requirement on the obsolete ingredient is
\* issued only after the creation of its replacement on the target has
\* succeeded: every requirement_delete in the log has a successful
\* requirement_create of the same recipe beside it.  Stated for the merges
\* of two different ingredients.
C12_DeleteOnlyAfterConfirmedCreate ==
    target_id # obsolete_id =>
        \A e \in MergeRequests :
            e.op = "requirement_delete" =>
                \E c \in MergeRequests :
                    c.op = "requirement_create" /\ c.recipe = e.recipe /\ c.ok

\* The number of requests op that the merge has issued.
MergeCount(op) ==
    BagCardinality([e \in {x \in MergeRequests : x.op = op} |-> merge_log[e]])

\* Every creation has completed once a deletion is issued, every deletion
\* once the ingredient delete is issued, and the function is left then.
MergeRequestsInOrder ==
    /\ MergeCount("requirement_delete") > 0 =>
          /\ additions = {}
          /\ MergeCount("requirement_create") = Cardinality(targets)
    /\ MergeCount("ingredient_delete") > 0 =>
          /\ additions = {}
          /\ deletions = {}
          /\ MergeCount("requirement_create") = Cardinality(targets)
          /\ MergeCount("requirement_delete") = Cardinality(targets)
          /\ MergeCount("ingredient_delete") = 1
          /\ mpc = "done"

\* C28: ingredient_merge issues its requests in this order: every
\* requirement creation is issued and joined before a requirement deletion
\* is issued, every deletion is joined before the delete of the obsolete
\* ingredient is issued, and no request follows that delete.
C28_CreationsThenDeletionsThenIngredient ==
    /\ []MergeRequestsInOrder
    /\ [][MergeCount("ingredient_delete") > 0 => merge_log' = merge_log]_merge_log

\* A merge that returned Ok after two creations and two deletions.
C28_Witness ==
    /\ merge_result = "Ok"
    /\ MergeCount("requirement_create") >= 2
    /\ MergeCount("requirement_delete") >= 2

\* C29: when the target or the obsolete clue is not resolved, or the fetch
\* of the obsolete ingredient fails, ingredient_merge returns the error
\* without a write: whenever it has an error that is not the one of its
\* ingredient delete, it has returned, it has issued no request that
\* writes, and the remote is as it was.
C29_NoWriteOnGatingFailure ==
    (merge_result = "Err" /\ MergeCount("ingredient_delete") = 0) =>
        /\ mpc = "done"
        /\ merge_log = EmptyBag
        /\ remote_requirements = requirements_before
        /\ merge_ingredients = IngredientIds

\* The fetch of an obsolete ingredient that recipes require has failed.
C29_Witness ==
    /\ merge_result = "Err"
    /\ target_id # 0
    /\ obsolete_id # 0
    /\ target_id # obsolete_id
    /\ UsedIn(remote_requirements, obsolete_id) # {}
    /\ merge_log = EmptyBag

\* C30: ingredient_merge issues no delete of the target ingredient and no
\* delete of a requirement on the target ingredient, whatever the two clues
\* resolve to.
C30_TargetNeverDeleted ==
    \A e \in MergeRequests :
        e.op \in {"requirement_delete", "ingredient_delete"} => e.ingredient # target_id

(***************************************************************************)
(* dump: dump_remote and Datadump::strip                                   *)
(***************************************************************************)
\* Names as sequences of code points: "a", "á" and "B".
DumpNames == {<<97>>, <<225>>, <<66>>}

\* unidecode, on the characters of DumpNames: it strips the accent of "á"
\* and leaves the ASCII letters, capitals included, as they are.
Unidecode(name) == [k \in DOMAIN name |-> IF name[k] = 225 THEN 97 ELSE name[k]]

\* `a.cmp(&b) == Ordering::Less` on two ASCII Strings.
StringLess(a, b) ==
    \E k \in 1..Len(b) :
        /\ k <= Len(a) + 1
        /\ \A j \in 1..(k - 1) : a[j] = b[j]
        /\ (k = Len(a) + 1 \/ a[k] < b[k])

RECURSIVE SortByName(_)
\* `v.sort_by(|lhs, rhs| unidecode(&lhs.name).cmp(&unidecode(&rhs.name)))`:
\* slice::sort_by is stable, entries that compare equal keep their order.
SortByName(v) ==
    IF v = <<>> THEN <<>>
    ELSE LET n == Len(v)
             sorted == SortByName(SubSeq(v, 1, n - 1))
             notAfter == {k \in 1..(n - 1) :
                             ~StringLess(Unidecode(v[n].name), Unidecode(sorted[k].name))}
             at == Cardinality(notAfter)
         IN  SubSeq(sorted, 1, at) \o <<v[n]>> \o SubSeq(sorted, at + 1, n - 1)

\* `set.iter().cloned().collect()` into a Vec: the records of the ids of
\* `order`, an iteration order of the HashSet.
Collect(order, source) == [k \in DOMAIN order |-> source[order[k]]]

\* The iteration order of the subset `set` when the whole iterates as `order`.
Restrict(order, set) == SelectSeq(order, LAMBDA id : id \in set)

RECURSIVE CollectTiersReversed(_, _, _)
\* A list that starts with the last tier.
CollectTiersReversed(ts, order, source) ==
    IF ts = <<>> THEN <<>>
    ELSE CollectTiersReversed(Tail(ts), order, source)
             \o SortByName(Collect(Restrict(order, Head(ts)), source))

RECURSIVE CollectTiers(_, _, _)
\* Lines 77-86 of dump_remote: every tier is collected, sorted by name and
\* pushed to dump.recipes.
CollectTiers(ts, order, source) ==
    IF ts = <<>> THEN <<>>
    ELSE SortByName(Collect(Restrict(order, Head(ts)), source))
             \o CollectTiers(Tail(ts), order, source)

\* Lines 73-96 of dump_remote, for iteration orders of the three HashSets.
DumpRemote(ts, recipe_order, ingredient_order, label_order) ==
    [recipes     |-> CollectTiers(ts, recipe_order, source_recipes),
     ingredients |-> SortByName(Collect(ingredient_order, source_ingredients)),
     labels      |-> SortByName(Collect(label_order, source_labels))]

\* `format!("__{kind}_{}", counter)`.
Placeholder(kind_name, counter) == "__" \o kind_name \o "_" \o ToString(counter)

\* A rewrite whose table numbers from 1.
StripTableFromOne(v, n, kind_name) ==
    [id \in {v[k].id : k \in 1..n} |->
        Placeholder(kind_name, CHOOSE k \in 1..n : v[k].id = id)]

\* The translation table that strip has filled after the first n entries of v.
StripTable(v, n, kind_name) ==
    [id \in {v[k].id : k \in 1..n} |->
        Placeholder(kind_name, (CHOOSE k \in 1..n : v[k].id = id) - 1)]

\* strip_ids (lines 452-488): the references with an entry in the table take
\* the mapped id, the others are left out.
StripIds(recipe, strip_recipes, strip_ingredients, strip_labels) ==
    [recipe EXCEPT
        !.requirements = {[q EXCEPT !.ingredient = strip_ingredients[q.ingredient]] :
                            q \in {x \in recipe.requirements :
                                      x.ingredient \in DOMAIN strip_ingredients}},
        !.dependencies = {[q EXCEPT !.recipe = strip_recipes[q.recipe]] :
                            q \in {x \in recipe.dependencies :
                                      x.recipe \in DOMAIN strip_recipes}},
        !.tags = {strip_labels[t] : t \in recipe.tags \cap DOMAIN strip_labels}]

\* A back-reference collection that is left as the remote returned it.
ClearKept(collection) == collection

\* `label.tagged_recipes.clear()` and `ingredient.used_in.clear()`.
Clear(collection) == {}

\* Datadump::strip (lines 32-64): labels, ingredients, then recipes, each
\* numbered from 0 in the order of its Vec; a recipe is rewritten with the
\* recipe table of the recipes before it.
Strip(d) ==
    LET strip_labels == StripTable(d.labels, Len(d.labels), "label")
        strip_ingredients == StripTable(d.ingredients, Len(d.ingredients), "ingredient")
    IN  [labels |-> [k \in DOMAIN d.labels |->
                        [d.labels[k] EXCEPT !.id = Placeholder("label", k - 1),
                                            !.tagged_recipes = Clear(@)]],
         ingredients |-> [k \in DOMAIN d.ingredients |->
                        [d.ingredients[k] EXCEPT !.id = Placeholder("ingredient", k - 1),
                                                 !.used_in = Clear(@)]],
         recipes |-> [k \in DOMAIN d.recipes |->
                        [StripIds(d.recipes[k], StripTable(d.recipes, k - 1, "recipe"),
                                  strip_ingredients, strip_labels)
                            EXCEPT !.id = Placeholder("recipe", k - 1)]]]

\* The name of ingredient or label number i of the remote: "a", "á", "B",
\* and again.
NameOf(i) == <<<<97>>, <<225>>, <<66>>>>[((i - 1) % 3) + 1]

\* A recipe of the remote: it requires the ingredients numbered up to its own
\* number and carries every label.
SourceRecipe(r, name, deps) ==
    [id |-> r, name |-> name,
     requirements |-> {[ingredient |-> i, quantity |-> QuantityOf(r, i),
                        optional |-> OptionalOf(r, i)] :
                          i \in {x \in IngredientIds : x <= r}},
     dependencies |-> {[recipe |-> d, quantity |-> QuantityOf(r, d),
                        optional |-> OptionalOf(r, d)] : d \in deps},
     tags |-> LabelIds]

\* The remote that dump and clone read: recipes with the given names and
\* any dependencies on recipes of a smaller number, ingredients and labels
\* with the given names and the back references that follow.
Source(recipe_names, ingredient_names, label_names) ==
    /\ \E deps \in [RemoteRecipeIds -> SUBSET RemoteRecipeIds] :
         /\ \A r \in RemoteRecipeIds : \A d \in deps[r] : d < r
         /\ source_recipes =
                [r \in RemoteRecipeIds |-> SourceRecipe(r, recipe_names[r], deps[r])]
    /\ source_ingredients =
           [i \in IngredientIds |->
               [id |-> i, name |-> ingredient_names[i],
                used_in |-> {r \in RemoteRecipeIds : i <= r}]]
    /\ source_labels =
           [l \in LabelIds |->
               [id |-> l, name |-> label_names[l], tagged_recipes |-> RemoteRecipeIds]]

DumpInit ==
    /\ TableIdle
    /\ TiersIdle
    /\ CloneIdle
    /\ IdentifyIdle
    /\ CleanIdle
    /\ MergeIdle
    /\ \E names \in [RemoteRecipeIds -> DumpNames] :
         Source(names, [i \in IngredientIds |-> NameOf(i)], [l \in LabelIds |-> NameOf(l)])
    /\ origin_recipes = {}
    /\ origin_ingredients = {}
    /\ origin_labels = {}
    /\ dump = <<>>
    /\ dump_result = "None"
    /\ dpc = "fetch_recipes"

\* Line 69 and fetch_recipes (99-119): a failed index is returned (`?`); a
\* failed recipe_get leaves the recipe out of the set.
DumpFetchRecipes ==
    /\ dpc = "fetch_recipes"
    /\ \/ /\ dump_result' = "Err"
          /\ dpc' = "done"
          /\ origin_recipes' = origin_recipes
       \/ /\ origin_recipes' \in SUBSET DOMAIN source_recipes
          /\ dump_result' = dump_result
          /\ dpc' = "fetch_ingredients"
    /\ UNCHANGED <<source_recipes, source_ingredients, source_labels,
                   origin_ingredients, origin_labels, dump, tierVars, notDump>>

\* Line 70 and fetch_ingredients (121-141).
DumpFetchIngredients ==
    /\ dpc = "fetch_ingredients"
    /\ \/ /\ dump_result' = "Err"
          /\ dpc' = "done"
          /\ origin_ingredients' = origin_ingredients
       \/ /\ origin_ingredients' \in SUBSET DOMAIN source_ingredients
          /\ dump_result' = dump_result
          /\ dpc' = "fetch_labels"
    /\ UNCHANGED <<source_recipes, source_ingredients, source_labels,
                   origin_recipes, origin_labels, dump, tierVars, notDump>>

\* Line 71 and fetch_labels (143-161), then the call of line 75,
\* `recipe_tiers(&origin_recipes)`.
DumpFetchLabels ==
    /\ dpc = "fetch_labels"
    /\ \/ /\ dump_result' = "Err"
          /\ dpc' = "done"
          /\ origin_labels' = origin_labels
          /\ UNCHANGED tierVars
       \/ /\ origin_labels' \in SUBSET DOMAIN source_labels
          /\ dump_result' = dump_result
          /\ dpc' = "recipe_tiers"
          /\ recipe_set' = origin_recipes
          /\ dependencies' = [r \in origin_recipes |->
                                 {d.recipe : d \in source_recipes[r].dependencies}]
          /\ tiers' = <<>>
          /\ tiered' = {}
          /\ rest' = {}
          /\ tpc' = "entry"
    /\ UNCHANGED <<source_recipes, source_ingredients, source_labels,
                   origin_recipes, origin_ingredients, dump, notDump>>

\* Lines 77-96: recipe_tiers has returned; the tiers, the ingredients and
\* the labels are collected from their HashSets, in whatever order these
\* iterate, and sorted by name.
DumpCollect ==
    /\ dpc = "recipe_tiers"
    /\ tpc = "done"
    /\ \E recipe_order \in Orderings(origin_recipes) :
       \E ingredient_order \in Orderings(origin_ingredients) :
       \E label_order \in Orderings(origin_labels) :
         dump' = DumpRemote(tiers, recipe_order, ingredient_order, label_order)
    /\ dpc' = "collected"
    /\ UNCHANGED <<source_recipes, source_ingredients, source_labels, origin_recipes,
                   origin_ingredients, origin_labels, dump_result, tierVars, notDump>>

\* Lines 492-494 of dump: `dump.strip()`, the document is printed, `Ok(())`.
DumpStrip ==
    /\ clone_variant = "none"
    /\ dpc = "collected"
    /\ dump' = Strip(dump)
    /\ dump_result' = "Ok"
    /\ dpc' = "done"
    /\ UNCHANGED <<source_recipes, source_ingredients, source_labels, origin_recipes,
                   origin_ingredients, origin_labels, tierVars, notDump>>

DumpNext ==
    \/ DumpFetchRecipes
    \/ DumpFetchIngredients
    \/ DumpFetchLabels
    \/ TiersEntry
    \/ TiersLoop
    \/ TiersReturn
    \/ DumpCollect
    \/ DumpStrip

SpecDump == DumpInit /\ [][DumpNext]_vars

(***************************************************************************)
(* Properties of dump                                                      *)
(***************************************************************************)
\* C3: dump is deterministic: the document of a run is the document of every
\* run that fetched the same records of the same source, whatever the order
\* in which the HashSets of recipes, ingredients and labels iterate.
C3_DumpDeterministic ==
    dump_result = "Ok" =>
        \A recipe_order \in Orderings(origin_recipes) :
        \A ingredient_order \in Orderings(origin_ingredients) :
        \A label_order \in Orderings(origin_labels) :
            dump = Strip(DumpRemote(tiers, recipe_order, ingredient_order, label_order))

\* C16: a record whose fetch fails is skipped and the run goes on to its
\* end, also when a fetched recipe depends on a recipe whose fetch failed:
\* the recipe_tiers call of dump_remote, made on the fetched recipes, comes
\* back.  Its loop is deterministic in (rest, tiered), so an iteration that
\* places nothing repeats for ever: "comes back" is stated as "every
\* iteration with recipes left places at least one of them".
C16_FetchFailureDoesNotStopRun ==
    (dpc = "recipe_tiers" /\ tpc = "loop" /\ rest # {}) =>
        NewTier(rest, tiered) # {}

\* The diacritic-and-case-normalized name: unidecode, then lower case.
Normalized(name) ==
    [k \in DOMAIN name |->
        LET c == Unidecode(name)[k] IN IF c \in 65..90 THEN c + 32 ELSE c]

\* The entries of v carry the placeholders of kind_name numbered in the
\* order of their normalized names.
NumberedByNormalizedName(v, kind_name) ==
    /\ \A k \in DOMAIN v : v[k].id = Placeholder(kind_name, k - 1)
    /\ \A j, k \in DOMAIN v :
          StringLess(Normalized(v[j].name), Normalized(v[k].name)) => j < k

\* C17: in the document of dump, for each kind on its own, the placeholder
\* ids are "__{kind}_{n}" with n following the order of the normalized
\* names: of two entities of a kind, the one whose normalized name sorts
\* first has the smaller n.
C17_PlaceholdersFollowNormalizedNames ==
    dump_result = "Ok" =>
        /\ NumberedByNormalizedName(dump.ingredients, "ingredient")
        /\ NumberedByNormalizedName(dump.labels, "label")
        /\ NumberedByNormalizedName(dump.recipes, "recipe")

\* The ids of the entries of the Vec v.
IdsOf(v) == {v[k].id : k \in DOMAIN v}

\* The id that the document gives to the entry of `before` with the id
\* `id`: the id of the entry at the same place in `after`.
PlaceholderOf(before, after, id) ==
    after[CHOOSE k \in DOMAIN before : before[k].id = id].id

\* `after` is `before` with placeholders for ids, entry by entry.
Renumbered(before, after, kind_name) ==
    /\ Len(after) = Len(before)
    /\ \A k \in DOMAIN after : after[k].id = Placeholder(kind_name, k - 1)

\* The document doc is the Datadump d without any id of the source: its
\* entries carry placeholders, and every recipe keeps, with the placeholder
\* of the target, exactly the requirements, dependencies and tags whose
\* target is an entry of d.
Anonymized(d, doc) ==
    /\ Renumbered(d.recipes, doc.recipes, "recipe")
    /\ Renumbered(d.ingredients, doc.ingredients, "ingredient")
    /\ Renumbered(d.labels, doc.labels, "label")
    /\ \A k \in DOMAIN d.recipes :
          /\ doc.recipes[k].requirements =
                 {[q EXCEPT !.ingredient =
                                PlaceholderOf(d.ingredients, doc.ingredients, q.ingredient)] :
                     q \in {x \in d.recipes[k].requirements :
                               x.ingredient \in IdsOf(d.ingredients)}}
          /\ doc.recipes[k].dependencies =
                 {[q EXCEPT !.recipe = PlaceholderOf(d.recipes, doc.recipes, q.recipe)] :
                     q \in {x \in d.recipes[k].dependencies : x.recipe \in IdsOf(d.recipes)}}
          /\ doc.recipes[k].tags =
                 {PlaceholderOf(d.labels, doc.labels, t) :
                     t \in d.recipes[k].tags \cap IdsOf(d.labels)}
          /\ {q.ingredient : q \in doc.recipes[k].requirements} \subseteq IdsOf(doc.ingredients)
          /\ {q.recipe : q \in doc.recipes[k].dependencies} \subseteq IdsOf(doc.recipes)
          /\ doc.recipes[k].tags \subseteq IdsOf(doc.labels)

\* C18: the document produced by dump holds no server-assigned id: every
\* step that strips the Datadump leaves placeholders for the ids of the
\* recipes, ingredients and labels, keeps every reference to an entity of
\* the dump with the placeholder of that entity, and leaves out the others.
C18_DocumentHoldsPlaceholdersOnly ==
    [][(dpc = "collected" /\ dpc' = "done") => Anonymized(dump, dump')]_dpc

\* A document from a source of which an ingredient was not fetched, with a
\* recipe that keeps a requirement, a dependency and a tag.
C18_Witness ==
    /\ dump_result = "Ok"
    /\ origin_ingredients # DOMAIN source_ingredients
    /\ \E k \in DOMAIN dump.recipes :
          /\ dump.recipes[k].requirements # {}
          /\ dump.recipes[k].dependencies # {}
          /\ dump.recipes[k].tags # {}

\* In the list of recipes v every dependency of a recipe names a recipe that
\* comes earlier in the list.
DependenciesFirst(v) ==
    \A k \in DOMAIN v : \A q \in v[k].dependencies :
        \E j \in 1..(k - 1) : v[j].id = q.recipe

\* Every recipe of the stripped list has as many dependencies as the remote
\* holds for it, each on the placeholder of an earlier recipe of the list.
NoDependencyDropped(before, after) ==
    \A k \in DOMAIN after :
        /\ Cardinality(after[k].dependencies) =
               Cardinality(source_recipes[before[k].id].dependencies)
        /\ \A q \in after[k].dependencies :
              \E j \in 1..(k - 1) :
                  /\ q.recipe = Placeholder("recipe", j - 1)
                  /\ after[j].id = q.recipe
                  /\ \E x \in before[k].dependencies :
                        x.recipe = before[j].id /\ x.quantity = q.quantity

\* C27: in the recipe list that dump_remote builds every recipe comes after
\* all the recipes it depends on; and when every recipe of the (acyclic)
\* remote was fetched, Datadump::strip drops no dependency: every recipe of
\* the document has as many dependencies as on the remote, each on the
\* placeholder of a recipe with a smaller placeholder number.
C27_DependenciesPrecedeAndSurvive ==
    [][/\ dpc' = "collected" => DependenciesFirst(dump'.recipes)
       /\ (dpc = "collected" /\ dpc' = "done"
              /\ origin_recipes = DOMAIN source_recipes) =>
             NoDependencyDropped(dump.recipes, dump'.recipes)]_dpc

\* A document of a remote whose recipes were all fetched, one of which has a
\* dependency.
C27_Witness ==
    /\ dump_result = "Ok"
    /\ origin_recipes = DOMAIN source_recipes
    /\ \E k \in DOMAIN dump.recipes : dump.recipes[k].dependencies # {}

\* C19: in the document produced by dump every ingredient has an empty
\* used_in and every label an empty tagged_recipes, whatever the remote
\* returned in these collections.
C19_BackReferencesCleared ==
    dump_result = "Ok" =>
        /\ \A k \in DOMAIN dump.ingredients : dump.ingredients[k].used_in = {}
        /\ \A k \in DOMAIN dump.labels : dump.labels[k].tagged_recipes = {}

\* A document with an ingredient and a label that the remote returned with
\* recipes in used_in and in tagged_recipes.
C19_Witness ==
    /\ dump_result = "Ok"
    /\ \E k \in DOMAIN dump.ingredients :
          \E i \in origin_ingredients :
             /\ source_ingredients[i].name = dump.ingredients[k].name
             /\ source_ingredients[i].used_in # {}
    /\ \E k \in DOMAIN dump.labels :
          \E l \in origin_labels :
             /\ source_labels[l].name = dump.labels[k].name
             /\ source_labels[l].tagged_recipes # {}

(***************************************************************************)
(* clone: gen_ingredient_table, recipe_clone, clone_dump and clone         *)
(***************************************************************************)
CloneVariants == {"clone_dump", "tiers"}

\* The name of recipe, ingredient or label number i of the remote that is
\* cloned: "a", "b", "c", ...
LetterName(i) == <<96 + i>>

\* The id under which the destination creates the copy of the source entity
\* id: a new id, another one for every entity.
DestinationId(id) == id + 10

FailuresLeft == MaxFailures - failures

\* The requests of which at most FailuresLeft fail: the sets that can fail.
MayFail(sent) == {failed \in SUBSET sent : Cardinality(failed) <= FailuresLeft}

\* A rewrite that sends one requirement at most.
MappedRequirementsOnce(reqs, table) ==
    LET mapped == {q \in reqs : q.ingredient \in DOMAIN table}
    IN  IF mapped = {} THEN {} ELSE {CHOOSE q \in mapped : TRUE}

\* recipe_clone, lines 281-284: the requirements whose ingredient has an
\* entry in the ingredient table; the others are logged and left out.
MappedRequirements(reqs, table) == {q \in reqs : q.ingredient \in DOMAIN table}

\* A rewrite that leaves every dependency out.
MappedDependenciesNone(deps, table) == {}

\* recipe_clone, lines 321-334: the dependencies whose recipe has an entry
\* in the recipe table; the others are left out.
MappedDependencies(deps, table) == {q \in deps : q.recipe \in DOMAIN table}

\* A rewrite that drops the returned ids.
InsertedNothing(table, batch) == table

\* `recipe_table.insert(recipe.id.as_str(), new_id)` for the recipes of a
\* batch, whose recipe_clone calls returned the ids of their copies.
Inserted(table, batch) == [r \in batch |-> DestinationId(r)] @@ table

\* A recipe_clone that inserts the id of its copy before it returns.
SharedTableWritten(table, r) == [x \in {r} |-> DestinationId(r)] @@ table

\* recipe_clone takes `recipe_table: &HashMap<&str, String>`, a shared
\* reference: the table is the same when the call of recipe r returns.
SharedTable(table, r) == table

CloneInit ==
    /\ TableIdle
    /\ TiersIdle
    /\ IdentifyIdle
    /\ CleanIdle
    /\ MergeIdle
    /\ Source([r \in RemoteRecipeIds |-> LetterName(r)],
              [i \in IngredientIds |-> LetterName(i)],
              [l \in LabelIds |-> LetterName(l)])
    /\ origin_recipes = {}
    /\ origin_ingredients = {}
    /\ origin_labels = {}
    /\ dump = <<>>
    /\ dump_result = "None"
    /\ clone_variant \in CloneVariants
    /\ dpc = IF clone_variant = "clone_dump" THEN "fetch_recipes" ELSE "idle"
    /\ clone_pc = IF clone_variant = "clone_dump" THEN "dump_remote" ELSE "fetch"
    /\ ingredient_table = <<>>
    /\ recipe_table = <<>>
    /\ queue = <<>>
    /\ tasks = <<>>
    /\ destination = <<>>
    /\ clone_log = {}
    /\ failures = 0
    /\ clone_result = "None"

\* maintenance_actions.rs 371: `dump = dump_remote(origin).await?` returns
\* the error of dump_remote.
CloneDumpError ==
    /\ clone_pc = "dump_remote"
    /\ dump_result = "Err"
    /\ clone_result' = "Err"
    /\ clone_pc' = "done"
    /\ UNCHANGED <<clone_variant, ingredient_table, recipe_table, queue, tasks,
                   destination, clone_log, failures, dumpVars, tierVars, notClone>>

\* maintenance_actions.rs 348-352 and gen_ingredient_table (165-190):
\* dump_remote has returned the Datadump; one ingredient_create for every
\* ingredient of the dump, the accepted ones enter the table, and the
\* recipes of the dump are cloned one after the other, in the dump's order.
CloneDumpTable ==
    /\ clone_pc = "dump_remote"
    /\ dpc = "collected"
    /\ LET sent == {dump.ingredients[k].id : k \in DOMAIN dump.ingredients}
       IN  \E failed \in MayFail(sent) :
             /\ ingredient_table' = [i \in sent \ failed |-> DestinationId(i)]
             /\ clone_log' = clone_log \cup
                    {[op |-> "ingredient_create", name |-> source_ingredients[i].name,
                      ok |-> i \notin failed] : i \in sent}
             /\ failures' = failures + Cardinality(failed)
    /\ queue' = [k \in DOMAIN dump.recipes |-> {dump.recipes[k].id}]
    /\ clone_pc' = "recipes"
    /\ UNCHANGED <<clone_variant, recipe_table, tasks, destination, clone_result,
                   dumpVars, tierVars, notClone>>

\* main.rs 623-638: a failed index is returned (`?`); a failed recipe_get
\* leaves the recipe out of origin_recipes.
CloneFetch ==
    /\ clone_pc = "fetch"
    /\ \/ /\ clone_result' = "Err"
          /\ clone_pc' = "done"
          /\ origin_recipes' = origin_recipes
       \/ /\ origin_recipes' \in SUBSET DOMAIN source_recipes
          /\ clone_result' = clone_result
          /\ clone_pc' = "gen_ingredient_table"
    /\ UNCHANGED <<clone_variant, ingredient_table, recipe_table, queue, tasks,
                   destination, clone_log, failures, source_recipes, source_ingredients,
                   source_labels, origin_ingredients, origin_labels, dump, dump_result,
                   dpc, tierVars, notClone>>

\* main.rs 640-641 and gen_ingredient_table (471-499): one ingredient_create
\* for every requirement of every fetched recipe; an ingredient enters the
\* table when one of its requests is accepted.  Then the call
\* `recipe_tiers(&origin_recipes)`.
CloneTiersTable ==
    /\ clone_pc = "gen_ingredient_table"
    /\ LET indexes == UNION {{<<r, q.ingredient>> : q \in source_recipes[r].requirements} :
                                r \in origin_recipes}
       IN  \E failed \in MayFail(indexes) :
             /\ ingredient_table' =
                    [i \in {p[2] : p \in indexes \ failed} |-> DestinationId(i)]
             /\ clone_log' = clone_log \cup
                    {[op |-> "ingredient_create", name |-> source_ingredients[p[2]].name,
                      ok |-> p \notin failed] : p \in indexes}
             /\ failures' = failures + Cardinality(failed)
    /\ recipe_set' = origin_recipes
    /\ dependencies' = [r \in origin_recipes |->
                           {d.recipe : d \in source_recipes[r].dependencies}]
    /\ tiers' = <<>>
    /\ tiered' = {}
    /\ rest' = {}
    /\ tpc' = "entry"
    /\ clone_pc' = "recipe_tiers"
    /\ UNCHANGED <<clone_variant, recipe_table, queue, tasks, destination, clone_result,
                   dumpVars, notClone>>

\* main.rs 642-644: recipe_tiers has returned; the tiers are cloned one
\* after the other.
CloneTiersQueue ==
    /\ clone_pc = "recipe_tiers"
    /\ tpc = "done"
    /\ queue' = tiers
    /\ clone_pc' = "recipes"
    /\ UNCHANGED <<clone_variant, ingredient_table, recipe_table, tasks, destination,
                   clone_log, failures, clone_result, dumpVars, tierVars, notClone>>

\* maintenance_actions.rs 352-353, main.rs 644-648: recipe_clone is called
\* for the next recipe of the dump, or for every recipe of the next tier.
CloneBatch ==
    /\ clone_pc = "recipes"
    /\ queue # <<>>
    /\ tasks' = [r \in Head(queue) |-> "recipe_create"]
    /\ queue' = Tail(queue)
    /\ clone_pc' = "batch"
    /\ UNCHANGED <<clone_variant, ingredient_table, recipe_table, destination, clone_log,
                   failures, clone_result, dumpVars, tierVars, notClone>>

\* recipe_clone, lines 249-257: recipe_create and
\* `.expect("Failed to create recipe on remote")`, which panics on an error.
CloneRecipeCreate ==
    /\ clone_pc = "batch"
    /\ \E r \in DOMAIN tasks :
         /\ tasks[r] = "recipe_create"
         /\ \/ /\ destination' = (DestinationId(r) :>
                      [name |-> source_recipes[r].name, requirements |-> {},
                       dependencies |-> {}, tags |-> {}]) @@ destination
               /\ clone_log' = clone_log \cup
                      {[op |-> "recipe_create", name |-> source_recipes[r].name, ok |-> TRUE]}
               /\ tasks' = [tasks EXCEPT ![r] = "tags"]
               /\ UNCHANGED <<failures, clone_result, clone_pc>>
            \/ /\ FailuresLeft > 0
               /\ clone_log' = clone_log \cup
                      {[op |-> "recipe_create", name |-> source_recipes[r].name, ok |-> FALSE]}
               /\ failures' = failures + 1
               /\ clone_result' = "Panic"
               /\ clone_pc' = "done"
               /\ UNCHANGED <<destination, tasks>>
    /\ UNCHANGED <<clone_variant, ingredient_table, recipe_table, queue, dumpVars,
                   tierVars, notClone>>

\* recipe_clone, lines 259-279: one recipe_tag, by label name, for every tag
\* of the recipe; the errors are logged.
CloneRecipeTags ==
    /\ clone_pc = "batch"
    /\ \E r \in DOMAIN tasks :
         /\ tasks[r] = "tags"
         /\ LET sent == {source_labels[l].name : l \in source_recipes[r].tags}
            IN  \E failed \in MayFail(sent) :
                  /\ destination' = [destination EXCEPT
                         ![DestinationId(r)].tags = @ \cup (sent \ failed)]
                  /\ clone_log' = clone_log \cup
                         {[op |-> "recipe_tag", recipe |-> DestinationId(r), label |-> l,
                           ok |-> l \notin failed] : l \in sent}
                  /\ failures' = failures + Cardinality(failed)
         /\ tasks' = [tasks EXCEPT ![r] = "requirements"]
    /\ UNCHANGED <<clone_variant, ingredient_table, recipe_table, queue, clone_result,
                   clone_pc, dumpVars, tierVars, notClone>>

\* recipe_clone, lines 281-319: one requirement_create, with the mapped
\* ingredient id, for every requirement whose ingredient is in the table;
\* the errors are logged.
CloneRecipeRequirements ==
    /\ clone_pc = "batch"
    /\ \E r \in DOMAIN tasks :
         /\ tasks[r] = "requirements"
         /\ LET sent == {[ingredient |-> ingredient_table[q.ingredient],
                          quantity |-> q.quantity, optional |-> q.optional] :
                            q \in MappedRequirements(source_recipes[r].requirements,
                                                     ingredient_table)}
            IN  \E failed \in MayFail(sent) :
                  /\ destination' = [destination EXCEPT
                         ![DestinationId(r)].requirements = @ \cup (sent \ failed)]
                  /\ clone_log' = clone_log \cup
                         {[op |-> "requirement_create", recipe |-> DestinationId(r),
                           ingredient |-> q.ingredient, quantity |-> q.quantity,
                           optional |-> q.optional, ok |-> q \notin failed] : q \in sent}
                  /\ failures' = failures + Cardinality(failed)
         /\ tasks' = [tasks EXCEPT ![r] = "dependencies"]
    /\ UNCHANGED <<clone_variant, ingredient_table, recipe_table, queue, clone_result,
                   clone_pc, dumpVars, tierVars, notClone>>

\* recipe_clone, lines 321-345: one dependency_create, with the mapped
\* recipe id, for every dependency whose recipe is in the table; the errors
\* are logged and the id of the new recipe is returned.
CloneRecipeDependencies ==
    /\ clone_pc = "batch"
    /\ \E r \in DOMAIN tasks :
         /\ tasks[r] = "dependencies"
         /\ LET sent == {[recipe |-> recipe_table[q.recipe], quantity |-> q.quantity,
                          optional |-> q.optional] :
                            q \in MappedDependencies(source_recipes[r].dependencies,
                                                     recipe_table)}
            IN  \E failed \in MayFail(sent) :
                  /\ destination' = [destination EXCEPT
                         ![DestinationId(r)].dependencies = @ \cup (sent \ failed)]
                  /\ clone_log' = clone_log \cup
                         {[op |-> "dependency_create", recipe |-> DestinationId(r),
                           requisite |-> q.recipe, quantity |-> q.quantity,
                           optional |-> q.optional, ok |-> q \notin failed] : q \in sent}
                  /\ failures' = failures + Cardinality(failed)
         /\ tasks' = [tasks EXCEPT ![r] = "returned"]
         /\ recipe_table' = SharedTable(recipe_table, r)
    /\ UNCHANGED <<clone_variant, ingredient_table, queue, clone_result,
                   clone_pc, dumpVars, tierVars, notClone>>

\* maintenance_actions.rs 354, main.rs 650-657: every recipe_clone of the
\* batch has returned and the returned ids are inserted in the recipe table.
CloneJoin ==
    /\ clone_pc = "batch"
    /\ \A r \in DOMAIN tasks : tasks[r] = "returned"
    /\ recipe_table' = Inserted(recipe_table, DOMAIN tasks)
    /\ tasks' = <<>>
    /\ clone_pc' = "recipes"
    /\ UNCHANGED <<clone_variant, ingredient_table, queue, destination, clone_log,
                   failures, clone_result, dumpVars, tierVars, notClone>>

\* maintenance_actions.rs 357, main.rs 660: `Ok(())`.
CloneReturn ==
    /\ clone_pc = "recipes"
    /\ queue = <<>>
    /\ clone_result' = "Ok"
    /\ clone_pc' = "done"
    /\ UNCHANGED <<clone_variant, ingredient_table, recipe_table, queue, tasks,
                   destination, clone_log, failures, dumpVars, tierVars, notClone>>

CloneNext ==
    \/ DumpFetchRecipes
    \/ DumpFetchIngredients
    \/ DumpFetchLabels
    \/ DumpCollect
    \/ CloneDumpError
    \/ CloneDumpTable
    \/ CloneFetch
    \/ CloneTiersTable
    \/ TiersEntry
    \/ TiersLoop
    \/ TiersReturn
    \/ CloneTiersQueue
    \/ CloneBatch
    \/ CloneRecipeCreate
    \/ CloneRecipeTags
    \/ CloneRecipeRequirements
    \/ CloneRecipeDependencies
    \/ CloneJoin
    \/ CloneReturn

SpecClone == CloneInit /\ [][CloneNext]_vars

(***************************************************************************)
(* Properties of clone                                                     *)
(***************************************************************************)
\* The requests `op` for recipe d of the destination that failed.
FailedRequests(op, d) == {e \in clone_log : e.op = op /\ e.recipe = d /\ ~e.ok}

\* The requirements of source recipe r whose ingredient is in the ingredient
\* table, and its dependencies whose recipe is in the recipe table.
RequirementsWithEntry(r) ==
    {q \in source_recipes[r].requirements : q.ingredient \in DOMAIN ingredient_table}

DependenciesWithEntry(r) ==
    {q \in source_recipes[r].dependencies : q.recipe \in DOMAIN recipe_table}

\* Every fetched recipe has its copy on the destination, and nothing else is
\* there.
CopiesFetchedRecipes ==
    /\ Cardinality(DOMAIN destination) = Cardinality(origin_recipes)
    /\ \A r \in origin_recipes :
          r \in DOMAIN recipe_table /\ recipe_table[r] \in DOMAIN destination

\* C9 as stated: after clone has completed, the destination holds as many
\* recipes as were fetched, and every copy has as many requirements and
\* dependencies as its source has with a mapped target, and as many tags as
\* its source.
C9_CloneKeepsCounts ==
    clone_result = "Ok" =>
        /\ CopiesFetchedRecipes
        /\ \A r \in origin_recipes :
              LET copy == destination[recipe_table[r]]
              IN  /\ Cardinality(copy.requirements) = Cardinality(RequirementsWithEntry(r))
                  /\ Cardinality(copy.dependencies) = Cardinality(DependenciesWithEntry(r))
                  /\ Cardinality(copy.tags) = Cardinality(source_recipes[r].tags)

\* C9, amended: the copy lacks exactly the requirements, dependencies and
\* tags whose create request failed.
C9_CloneKeepsCountsButFailedRequests ==
    clone_result = "Ok" =>
        /\ CopiesFetchedRecipes
        /\ \A r \in origin_recipes :
              LET copy == destination[recipe_table[r]]
                  failed(op) == Cardinality(FailedRequests(op, recipe_table[r]))
              IN  /\ Cardinality(copy.requirements) =
                         Cardinality(RequirementsWithEntry(r)) - failed("requirement_create")
                  /\ Cardinality(copy.dependencies) =
                         Cardinality(DependenciesWithEntry(r)) - failed("dependency_create")
                  /\ Cardinality(copy.tags) =
                         Cardinality(source_recipes[r].tags) - failed("recipe_tag")

\* A completed clone with a requirement that is left out for want of a table
\* entry, a request that failed, and a copy that has a requirement, a
\* dependency and a tag.
C9_Witness ==
    /\ clone_result = "Ok"
    /\ \E r \in origin_recipes :
          RequirementsWithEntry(r) # source_recipes[r].requirements
    /\ \E r \in origin_recipes, op \in {"requirement_create", "dependency_create", "recipe_tag"} :
          FailedRequests(op, recipe_table[r]) # {}
    /\ \E r \in origin_recipes :
          /\ destination[recipe_table[r]].requirements # {}
          /\ destination[recipe_table[r]].dependencies # {}
          /\ destination[recipe_table[r]].tags # {}

\* The source recipe whose copy has the destination id d.
SourceOf(d) == CHOOSE r \in DOMAIN source_recipes : DestinationId(r) = d

\* The dependencies of source recipe r on fetched recipes.
FetchedDependencies(r) ==
    {q.recipe : q \in source_recipes[r].dependencies} \cap origin_recipes

\* The recipe table holds no recipe of the batch in flight, and holds every
\* fetched dependency of each of them.
TableAheadOfBatch ==
    clone_pc = "batch" =>
        /\ DOMAIN tasks \cap DOMAIN recipe_table = {}
        /\ \A r \in DOMAIN tasks : FetchedDependencies(r) \subseteq DOMAIN recipe_table

\* Every dependency of a copy names the copy of a recipe of an earlier tier.
CopiesDependOnEarlierTiers ==
    \A d \in DOMAIN destination : \A q \in destination[d].dependencies :
        \E x \in origin_recipes :
            /\ q.recipe = DestinationId(x)
            /\ TierOf(x) > 0
            /\ TierOf(x) < TierOf(SourceOf(d))

\* The recipe table changes only in the step that joins a batch whose
\* recipe_clone calls have all returned, and the next batch starts later.
TableWrittenAtJoin ==
    recipe_table' # recipe_table =>
        /\ clone_pc = "batch"
        /\ \A r \in DOMAIN tasks : tasks[r] = "returned"
        /\ DOMAIN recipe_table' = DOMAIN recipe_table \cup DOMAIN tasks
        /\ tasks' = <<>>
        /\ clone_pc' = "recipes"

FailedCreations == {e \in clone_log : e.op = "recipe_create" /\ ~e.ok}

\* C14: a failed recipe creation aborts that recipe's creation only: the
\* run is not aborted by it (it goes on with the other recipes of the tier
\* and with the later tiers).
C14_FailedCreationDoesNotAbortRun ==
    FailedCreations # {} => clone_result # "Panic"

\* The recipes whose recipe_clone has passed its requirement requests, and
\* those whose recipe_clone has passed its dependency requests.
PastRequirements ==
    DOMAIN recipe_table \cup {r \in DOMAIN tasks : tasks[r] \in {"dependencies", "returned"}}

PastDependencies ==
    DOMAIN recipe_table \cup {r \in DOMAIN tasks : tasks[r] = "returned"}

\* What the requests `op` for the copy of r asked for: the log entries
\* without their outcome.
RequirementsSent(r) ==
    {[ingredient |-> e.ingredient, quantity |-> e.quantity, optional |-> e.optional] :
        e \in {x \in clone_log : x.op = "requirement_create" /\ x.recipe = DestinationId(r)}}

DependenciesSent(r) ==
    {[recipe |-> e.requisite, quantity |-> e.quantity, optional |-> e.optional] :
        e \in {x \in clone_log : x.op = "dependency_create" /\ x.recipe = DestinationId(r)}}

InFlight == \E r \in DOMAIN tasks : tasks[r] # "returned"

\* A recipe_clone has been started: a batch exists, or a copy or an entry of
\* the recipe table does.
RecipeCreationStarted ==
    \/ tasks # <<>>
    \/ destination # <<>>
    \/ recipe_table # <<>>
    \/ \E e \in clone_log : e.op = "recipe_create"

\* A step leaves both tables alone while a recipe_clone is in flight, writes
\* the ingredient table only before any recipe_clone has been started, and
\* writes the recipe table only when it ends a batch whose calls have all
\* returned.
TablesWrittenOutsideBatches ==
    /\ InFlight => (ingredient_table' = ingredient_table /\ recipe_table' = recipe_table)
    /\ ingredient_table' # ingredient_table => ~RecipeCreationStarted
    /\ RecipeCreationStarted => ingredient_table' = ingredient_table
    /\ recipe_table' # recipe_table => (tasks # <<>> /\ ~InFlight /\ tasks' = <<>>)

\* C20: during clone no translation table is written while a task of a
\* concurrent batch is in flight: the ingredient table is complete before
\* the first recipe creation starts and is not written afterwards, and the
\* recipe table is written only between batches, when every recipe creation
\* and attachment of the current tier has joined.
C20_TablesWrittenBetweenBatches ==
    [][TablesWrittenOutsideBatches]_<<ingredient_table, recipe_table>>

\* The tiered clone has completed with a filled ingredient table after a
\* batch of two recipes whose ids both entered the recipe table.
C20_Witness ==
    /\ clone_variant = "tiers"
    /\ clone_result = "Ok"
    /\ ingredient_table # <<>>
    /\ \E k \in DOMAIN tiers :
          /\ Cardinality(tiers[k]) >= 2
          /\ tiers[k] \subseteq DOMAIN recipe_table

\* The fetches and recipe_tiers have returned: dump_remote has built the
\* Datadump, or the tiered clone has its tiers.
GatingStepsCompleted ==
    IF clone_variant = "clone_dump" THEN dpc = "collected"
    ELSE clone_variant = "tiers" /\ tpc = "done"

\* C24: clone returns success whenever its fetch and tiering steps have
\* completed, whatever request on the destination failed.
C24_SuccessOnceGatingStepsComplete ==
    (clone_pc = "done" /\ GatingStepsCompleted) => clone_result = "Ok"

(***************************************************************************)
(* gen_ingredient_table (maintenance_actions.rs 165-190)                  *)
(***************************************************************************)
\* The display names of the ingredients of a Datadump: two ingredients can
\* have the same name.
DataNames == {"a", "b"}

\* models.rs Classifications: no flag set, or one of the four.
Classifications ==
    {[dairy |-> d, meat |-> m, gluten |-> g, animal_product |-> p] :
        d \in BOOLEAN, m \in BOOLEAN, g \in BOOLEAN, p \in BOOLEAN}

DataClassifications ==
    {c \in Classifications :
        Cardinality({f \in {"dairy", "meat", "gluten", "animal_product"} : c[f]}) <= 1}

\* The ingredients a Datadump can hold: each its own id.
DataIngredients ==
    UNION {[1..n -> [name : DataNames, classifications : DataClassifications]] :
              n \in 0..MaxIngredients}

\* A request that carries the name only, with every flag off.
CreateParamsNameOnly(ingredient) ==
    [name |-> ingredient.name, dairy |-> FALSE, meat |-> FALSE, gluten |-> FALSE,
     animal_product |-> FALSE]

\* Lines 169-176, and the body `json!({...})` of lib.rs ingredient_create
\* (287-293): the name and the four flags of the ingredient.
CreateParams(ingredient) ==
    [name |-> ingredient.name,
     dairy |-> ingredient.classifications.dairy,
     meat |-> ingredient.classifications.meat,
     gluten |-> ingredient.classifications.gluten,
     animal_product |-> ingredient.classifications.animal_product]

\* The id the destination gives to the next ingredient it creates.
NewIngredientId(existing) == 51 + Cardinality(DOMAIN existing)

\* The source id of element k of data.ingredients.
DataId(k) == k

TableInit ==
    /\ TiersIdle
    /\ IdentifyIdle
    /\ CleanIdle
    /\ MergeIdle
    /\ DumpIdle
    /\ CloneIdle
    /\ data_ingredients \in DataIngredients
    /\ destination_ingredients \in {<<>>, [n \in {"a"} |-> 51]}
    /\ gen_table = <<>>
    /\ posts = <<>>
    /\ position = 1
    /\ gpc = "loop"

\* One iteration of `for ingredient in data.ingredients.iter()` (168-187):
\* the request fails and the error is logged, or the destination answers
\* with the {id, name} of the ingredient: the one it creates, or, for a name
\* it holds already, the one it holds (lib.rs post, 409 CONFLICT with data);
\* then `table.insert(&ingredient.id, created.id)`.
TableIngredientCreate ==
    /\ gpc = "loop"
    /\ position <= Len(data_ingredients)
    /\ LET ingredient == data_ingredients[position]
           params == CreateParams(ingredient)
       IN  \/ /\ posts' = Append(posts, [params |-> params, ok |-> FALSE, id |-> 0])
              /\ UNCHANGED <<gen_table, destination_ingredients>>
           \/ LET created == IF params.name \in DOMAIN destination_ingredients
                              THEN destination_ingredients[params.name]
                              ELSE NewIngredientId(destination_ingredients)
              IN  /\ posts' = Append(posts, [params |-> params, ok |-> TRUE, id |-> created])
                  /\ destination_ingredients' =
                         [n \in {params.name} |-> created] @@ destination_ingredients
                  /\ gen_table' = [i \in {DataId(position)} |-> created] @@ gen_table
    /\ position' = position + 1
    /\ UNCHANGED <<data_ingredients, gpc, notTable>>

\* Line 189: the loop is through and `table` is returned.
TableReturn ==
    /\ gpc = "loop"
    /\ position > Len(data_ingredients)
    /\ gpc' = "done"
    /\ UNCHANGED <<data_ingredients, gen_table, posts, destination_ingredients, position,
                   notTable>>

TableNext == TableIngredientCreate \/ TableReturn

SpecTable == TableInit /\ [][TableNext]_vars

====
